---- MODULE Spec2Model ----
(***************************************************************************)
(* Arrow's theorem encoding (src/main.py).  The program builds seven       *)
(* first-order sentences over p(x,a,b,s), w(a,b,s) and swap(x,a,b,s) and   *)
(* hands their conjunction to the solver.                                  *)
(*                                                                         *)
(* A "situation" is the interpretation of p(.,.,.,s) and w(.,.,s) at one   *)
(* state s.  sits is the fragment of an interpretation that is under       *)
(* consideration: the situations the quantified state variables are        *)
(* instantiated with.  The sentences are evaluated over that fragment,     *)
(* with agents and alternatives ranging over the ones the seed data names. *)
(***************************************************************************)
EXTENDS Integers, Sequences, FiniteSets

VARIABLES pc, permutations, first_perm, curr_state, constant_conditions,
          assigned, sits

vars == <<pc, permutations, first_perm, curr_state, constant_conditions,
          assigned, sits>>

-----------------------------------------------------------------------------
(* Domains *)

NumAgents == 2
Agents == 1..NumAgents
Alternatives == {1, 2, 3}

\* bounds of the exploration
MaxExtra == 1
MaxFlips == 1
MaxTrue == 2
MaxSwaps == 2

Keys == Agents \X Alternatives \X Alternatives
Pairs == Alternatives \X Alternatives
Labels == Agents \X Alternatives \X Alternatives
NoLabel == <<>>

-----------------------------------------------------------------------------
(* itertools.permutations([1, 2, 3]): the tuples in lexicographic order *)

PermSet == {t \in [1..3 -> Alternatives] : \A i, j \in 1..3 : i # j => t[i] # t[j]}

LexLess(t, u) ==
    \E i \in 1..3 : t[i] < u[i] /\ \A j \in 1..(i - 1) : t[j] = u[j]

itertools_permutations ==
    [n \in 1..Cardinality(PermSet) |->
        CHOOSE t \in PermSet : Cardinality({u \in PermSet : LexLess(u, t)}) = n - 1]

-----------------------------------------------------------------------------
(* The relations.  s is a situation record; p(x,a,b,s) and w(a,b,s) read it *)

p(x, a, b, s) == s.pref[<<x, a, b>>]
w(a, b, s) == s.welf[<<a, b>>]

-----------------------------------------------------------------------------
(* The sentences, over a fragment S of situations *)

get_linearity_no_second(S) ==
    \A x \in Agents, a \in Alternatives, b \in Alternatives, s \in S, c \in Alternatives :
        LET first == p(x, a, b, s) \/ p(x, b, a, s) \/ a = b
            third == w(a, b, s) \/ w(b, a, s) \/ a = b
            fourth == (p(x, a, b, s) /\ p(x, b, c, s)) => p(x, a, c, s)
            fifth == (w(a, b, s) /\ w(b, c, s)) => w(a, c, s)
        IN  first /\ third /\ fourth /\ fifth

get_linearity(S) ==
    \A x \in Agents, a \in Alternatives, b \in Alternatives, s \in S, c \in Alternatives :
        LET first == p(x, a, b, s) \/ p(x, b, a, s) \/ a = b
            second == ~p(x, a, a, s) /\ ~w(a, a, s)
            third == w(a, b, s) \/ w(b, a, s) \/ a = b
            fourth == (p(x, a, b, s) /\ p(x, b, c, s)) => p(x, a, c, s)
            fifth == (w(a, b, s) /\ w(b, c, s)) => w(a, c, s)
        IN  first /\ second /\ third /\ fourth /\ fifth

individual_prefs(S) ==
    \A s1 \in S, s2 \in S :
        LET assumption == \A x \in Agents, a \in Alternatives, b \in Alternatives :
                              p(x, a, b, s1) = p(x, a, b, s2)
            result == \A a \in Alternatives, b \in Alternatives :
                              w(a, b, s1) = w(a, b, s2)
        IN  assumption => result

get_unanimity(S) ==
    \A a \in Alternatives, b \in Alternatives, s \in S :
        LET assumption == \A x \in Agents : p(x, a, b, s)
        IN  assumption => w(a, b, s)

get_nondictatorship(S) ==
    LET condition(x, a, b, s) == p(x, a, b, s) = w(a, b, s)
    IN  ~(\E x \in Agents :
             \A s \in S, a \in Alternatives, b \in Alternatives : condition(x, a, b, s))

get_iia_swapped_pair(S) ==
    \A a \in Alternatives, b \in Alternatives, s1 \in S, s2 \in S :
        LET assumption == \A x \in Agents : p(x, a, b, s1) = p(x, b, a, s2)
        IN  assumption => (w(a, b, s1) = w(a, b, s2))

get_iia(S) ==
    \A a \in Alternatives, b \in Alternatives, s1 \in S, s2 \in S :
        LET assumption == \A x \in Agents : p(x, a, b, s1) = p(x, a, b, s2)
        IN  assumption => (w(a, b, s1) = w(a, b, s2))

-----------------------------------------------------------------------------
(* get_swap_condition.  The sentence relates situation s to the situation   *)
(* swap(y,a1,b1,s); v stands for the value of p(x,a,b,.) in that target.    *)

basic_dropped(v, x, a, b, s) == TRUE

basic(v, x, a, b, s) == v = p(x, b, a, s)

swap_part_other_agent(v, x, y, a, b, s) == v = p(y, a, b, s)

swap_part(v, x, y, a, b, s) == v = p(x, a, b, s)

\* Or(Not(x == y), And()): the empty conjunction is true
neq_part(x, y) == (x # y) \/ TRUE

not_affecting(v, x, y, a, b, s) == swap_part(v, x, y, a, b, s) /\ neq_part(x, y)

first_g_unguarded(x, y, a, a1, b, b1, s) ==
    x = y /\ a = a1 /\ b = b1

first_g(x, y, a, a1, b, b1, s) ==
    x = y /\ a = a1 /\ b = b1 /\ p(x, b, a, s)

second_g(x, y, a, a1, b, b1, s) ==
    x = y /\ a = a1 /\ b # b1 /\ b # a /\ p(x, b1, b, s)

third_g(x, y, a, a1, b, b1, s) ==
    x = y /\ b = b1 /\ a # a1 /\ b # a /\ p(x, a, a1, s)

\* the disjunction of the sentence at the instance (x, y, a, a1, b, b1, s)
cases(v, x, y, a, a1, b, b1, s) ==
    \/ not_affecting(v, x, y, a, b, s)
    \/ first_g(x, y, a, a1, b, b1, s)
    \/ second_g(x, y, a, a1, b, b1, s)
    \/ third_g(x, y, a, a1, b, b1, s)

\* And(basic, Or(...)) at the instances that speak about p(k, swap(lab, s)),
\* with v for its value
permits(v, k, lab, s) ==
    /\ cases(v, k[1], lab[1], k[2], lab[2], k[3], lab[3], s)
    /\ k = lab => basic(v, k[1], k[2], k[3], s)

\* get_swap_condition at (s, lab): the interpretations of p in swap(lab, s)
\* that satisfy And(basic, Or(...)) for every x, a, b
get_swap_condition(s, lab) ==
    LET can_hold == {k \in Keys : permits(TRUE, k, lab, s)}
        can_fail == {k \in Keys : permits(FALSE, k, lab, s)}
        open == can_hold \cap can_fail
    IN  IF can_hold \cup can_fail # Keys
        THEN {}
        ELSE {[k \in Keys |-> IF k \in open THEN f[k] ELSE k \in can_hold] :
                  f \in [open -> BOOLEAN]}

\* swap is a total function: every swap(lab, s) must have a value
swap_defined(s) ==
    \A lab \in Labels : \A k \in Keys : {v \in BOOLEAN : permits(v, k, lab, s)} # {}

swap_cond(S) == \A s \in S : swap_defined(s)

-----------------------------------------------------------------------------
(* introduce_constants *)

agent_facts_index_slip(i, perm, k) ==
    {<<i, perm[1], perm[2], k>>, <<i, perm[1], perm[3], k>>, <<i, perm[3], perm[2], k>>}

\* And(p(i, perm[0], perm[1], k), p(i, perm[0], perm[2], k), p(i, perm[1], perm[2], k))
agent_facts(i, perm, k) ==
    {<<i, perm[1], perm[2], k>>, <<i, perm[1], perm[3], k>>, <<i, perm[2], perm[3], k>>}

\* the ground facts hold in the situations of S they are about
constants(S) ==
    \A s \in S, n \in 1..Len(constant_conditions) :
        \A f \in constant_conditions[n] : f[4] = s.id => p(f[1], f[2], f[3], s)

main_sentence(S) ==
    /\ get_linearity(S)
    /\ individual_prefs(S)
    /\ get_unanimity(S)
    /\ get_nondictatorship(S)
    /\ get_iia(S)
    /\ swap_cond(S)
    /\ constants(S)

Init ==
    /\ pc = "outer"
    /\ permutations = itertools_permutations
    /\ first_perm = <<>>
    /\ curr_state = 0
    /\ constant_conditions = <<>>
    /\ assigned = <<>>
    /\ sits = <<>>

\* for first_perm in permutations: the iterator yields its next item
OuterNext ==
    /\ pc = "outer"
    /\ permutations # <<>>
    /\ first_perm' = Head(permutations)
    /\ permutations' = Tail(permutations)
    /\ pc' = "inner"
    /\ UNCHANGED <<curr_state, constant_conditions, assigned, sits>>

\* for second_perm in permutations: the same iterator yields its next item
InnerNext ==
    /\ pc = "inner"
    /\ permutations # <<>>
    /\ LET second_perm == Head(permutations)
           k == curr_state + 1
       IN  /\ curr_state' = k
           /\ constant_conditions' =
                  Append(constant_conditions,
                         agent_facts(1, first_perm, k) \cup agent_facts(2, second_perm, k))
           /\ assigned' = Append(assigned, <<first_perm, second_perm>>)
    /\ permutations' = Tail(permutations)
    /\ UNCHANGED <<pc, first_perm, sits>>

\* the inner loop ends when the iterator is exhausted
InnerExhausted ==
    /\ pc = "inner"
    /\ permutations = <<>>
    /\ pc' = "outer"
    /\ UNCHANGED <<permutations, first_perm, curr_state, constant_conditions, assigned, sits>>

\* the outer loop ends when the iterator is exhausted: return And(constant_conditions)
OuterExhausted ==
    /\ pc = "outer"
    /\ permutations = <<>>
    /\ pc' = "solve"
    /\ UNCHANGED <<permutations, first_perm, curr_state, constant_conditions, assigned, sits>>

introduce_constants == OuterNext \/ InnerNext \/ InnerExhausted \/ OuterExhausted

-----------------------------------------------------------------------------
(* The solver's candidates for the interpretation of p and w at a state *)

\* a strict order read off a permutation, as the seed facts do for one agent
order_of(perm) == {<<perm[1], perm[2]>>, <<perm[1], perm[3]>>, <<perm[2], perm[3]>>}

situation(k, pa, pb, r, lab) ==
    [id |-> k,
     pref |-> [key \in Keys |->
                  <<key[2], key[3]>> \in order_of(IF key[1] = 1 THEN pa ELSE pb)],
     welf |-> [ab \in Pairs |-> ab \in order_of(r)],
     by |-> lab]

RECURSIVE SubsetsUpTo(_, _)
SubsetsUpTo(S, n) ==
    IF n = 0 THEN {{}}
    ELSE LET smaller == SubsetsUpTo(S, n - 1)
         IN  smaller \cup {T \cup {e} : T \in smaller, e \in S}

Atoms == ({"p"} \X Keys) \cup ({"w"} \X Pairs)

flip(s, F) ==
    [s EXCEPT !.pref = [key \in Keys |-> IF <<"p", key>> \in F THEN ~s.pref[key]
                                          ELSE s.pref[key]],
              !.welf = [ab \in Pairs |-> IF <<"w", ab>> \in F THEN ~s.welf[ab]
                                         ELSE s.welf[ab]]]

Range(q) == {q[i] : i \in 1..Len(q)}

\* the two state variables s1, s2 of the binary sentences
NumStateVars == 2

seed_unchanged == UNCHANGED <<pc, permutations, first_perm, curr_state,
                              constant_conditions, assigned>>

\* The solver instantiates a state variable with a state k, seeded or one of
\* MaxExtra further ones, and interprets p and w there by strict orders that
\* satisfy the ground facts about k.
Interpret ==
    /\ pc = "solve"
    /\ Len(sits) < NumStateVars
    /\ \E k \in 1..(curr_state + MaxExtra), pa \in PermSet, pb \in PermSet, r \in PermSet :
           LET s == situation(k, pa, pb, r, NoLabel)
           IN  /\ \A i \in 1..Len(sits) : sits[i].id # k
               /\ constants({s})
               /\ sits' = Append(sits, s)
    /\ seed_unchanged

\* An interpretation of one state that differs from strict orders in at most
\* MaxFlips atoms of p and w.
InterpretNear ==
    /\ pc = "solve"
    /\ sits = <<>>
    /\ \E pa \in PermSet, pb \in PermSet, r \in PermSet, F \in SubsetsUpTo(Atoms, MaxFlips) :
           sits' = <<flip(situation(0, pa, pb, r, NoLabel), F)>>
    /\ seed_unchanged

\* a state no ground fact is about, with p interpreted by q; nothing here reads w
anonymous(q, lab) ==
    [id |-> 0, pref |-> q, welf |-> [ab \in Pairs |-> FALSE], by |-> lab]

\* The interpretations of p at one state with at most MaxTrue true atoms in
\* which every swap has a value.
Swappable ==
    {q \in {[key \in Keys |-> key \in T] : T \in SubsetsUpTo(Keys, MaxTrue)} :
        swap_defined(anonymous(q, NoLabel))}

\* The solver interprets p at a state s.
Assume ==
    /\ pc = "solve"
    /\ sits = <<>>
    /\ \E q \in Swappable : sits' = <<anonymous(q, NoLabel)>>
    /\ seed_unchanged

\* The state swap(lab, s) of the last state s considered: any interpretation of
\* p that get_swap_condition allows and in which every swap has a value again.
\* sits keeps the chain: the state it started from and the states it led to.
Swap ==
    /\ pc = "solve"
    /\ sits # <<>>
    /\ Len(sits) <= MaxSwaps
    /\ \E lab \in Labels :
           \E q \in get_swap_condition(sits[Len(sits)], lab) \cap Swappable :
               sits' = Append(sits, anonymous(q, lab))
    /\ seed_unchanged

Next == introduce_constants \/ Interpret

Spec == Init /\ [][Next]_vars

NextLin == introduce_constants \/ InterpretNear

SpecLin == Init /\ [][NextLin]_vars

NextSwap == introduce_constants \/ Assume \/ Swap

SpecSwap == Init /\ [][NextSwap]_vars

-----------------------------------------------------------------------------
(* Properties *)

Frag == Range(sits)

AllFacts == UNION Range(constant_conditions)

\* a strict total order on the alternatives
StrictTotalOrder(R) ==
    /\ \A a \in Alternatives, b \in Alternatives : a # b => (<<a, b>> \in R \/ <<b, a>> \in R)
    /\ \A a \in Alternatives : <<a, a>> \notin R
    /\ \A a \in Alternatives, b \in Alternatives, c \in Alternatives :
           (<<a, b>> \in R /\ <<b, c>> \in R) => <<a, c>> \in R
    /\ \A a \in Alternatives, b \in Alternatives : ~(<<a, b>> \in R /\ <<b, a>> \in R)

\* C1: when introduce_constants returns it has seeded 3! x 3! = 36 states, one
\* for every ordered pair of permutations, with pairwise distinct identifiers.
C1_SeedsEveryPair ==
    pc = "solve" =>
        /\ Len(constant_conditions) = Cardinality(PermSet) * Cardinality(PermSet)
        /\ \A fp \in PermSet, sp \in PermSet :
               \E n \in 1..Len(assigned) : assigned[n] = <<fp, sp>>
        /\ \A n \in 1..Len(constant_conditions), m \in 1..Len(constant_conditions) :
               n # m => {f[4] : f \in constant_conditions[n]} \cap
                        {f[4] : f \in constant_conditions[m]} = {}

\* C2: for every seeded state k and agent i with permutation (q0,q1,q2), the
\* facts about i in k are exactly p(i,q0,q1,k), p(i,q0,q2,k), p(i,q1,q2,k); they
\* are a strict total order and never hold a pair together with its converse.
C2_SeedFactsEncodePermutation ==
    \A k \in 1..Len(constant_conditions) :
        /\ \A f \in constant_conditions[k] : f[4] = k /\ f[1] \in Agents
        /\ \A i \in Agents :
               LET q == assigned[k][i]
                   about == {f \in AllFacts : f[1] = i /\ f[4] = k}
               IN  /\ about = {<<i, q[1], q[2], k>>, <<i, q[1], q[3], k>>, <<i, q[2], q[3], k>>}
                   /\ StrictTotalOrder({<<f[2], f[3]>> : f \in about})
                   /\ \A f \in about : <<i, f[3], f[2], k>> \notin about

C2_Witness ==
    /\ pc = "solve"
    /\ \E k \in 1..Len(constant_conditions) :
           /\ assigned[k][1] # assigned[k][2]
           /\ Cardinality(constant_conditions[k]) = 2 * Cardinality(order_of(assigned[k][1]))

\* C3: the full conjunction is unsatisfiable: no candidate fragment of an
\* interpretation satisfies all seven conjuncts of main_sentence.
C3_MainSentenceUnsatisfiable ==
    ~(pc = "solve" /\ sits # <<>> /\ main_sentence(Frag))

\* two seeded states at which every conjunct but the swap sentence holds
C3_Witness ==
    /\ pc = "solve"
    /\ Len(sits) = NumStateVars
    /\ \A s \in Frag : s.id <= curr_state
    /\ get_linearity(Frag) /\ individual_prefs(Frag) /\ get_unanimity(Frag)
    /\ get_nondictatorship(Frag) /\ get_iia(Frag) /\ constants(Frag)
    /\ ~swap_cond(Frag)

\* C4: without Non-Dictatorship the conjunction is satisfiable: a candidate that
\* satisfies Linearity, Independence-of-Profile, Unanimity, IIA and the ground
\* facts (say with w copying one agent) satisfies the swap sentence as well.
C4_SatisfiableWithoutNonDictatorship ==
    (/\ pc = "solve" /\ sits # <<>>
     /\ get_linearity(Frag) /\ individual_prefs(Frag) /\ get_unanimity(Frag)
     /\ get_iia(Frag) /\ constants(Frag))
        => swap_cond(Frag)

\* no candidate satisfies the six conjuncts that remain without Non-Dictatorship
NoCandidateWithoutNonDictatorship ==
    ~(/\ pc = "solve" /\ sits # <<>>
      /\ get_linearity(Frag) /\ individual_prefs(Frag) /\ get_unanimity(Frag)
      /\ get_iia(Frag) /\ constants(Frag) /\ swap_cond(Frag))

\* C9: the swap sentence composes with Linearity: at a state that satisfies
\* Linearity some swap of distinct alternatives a, b by an agent x has a value in
\* which x's order of (a, b) is exactly inverted and Linearity still holds.
C9_SwapComposesWithLinearity ==
    (pc = "solve" /\ sits # <<>> /\ get_linearity(Frag)) =>
        \A s \in Frag :
            \E x \in Agents, a \in Alternatives, b \in Alternatives :
                /\ a # b
                /\ \E q \in get_swap_condition(s, <<x, a, b>>) :
                       LET t == [s EXCEPT !.pref = q]
                       IN  /\ p(x, a, b, t) = p(x, b, a, s)
                           /\ p(x, b, a, t) = p(x, a, b, s)
                           /\ get_linearity({t})

\* no state that satisfies Linearity has a value for every swap
LinearityExcludesSwap ==
    \A s \in Frag : get_linearity({s}) => ~swap_defined(s)

\* C10: IIA entails Independence-of-Profile: where get_iia holds, two states in
\* which every agent's preference on every pair agrees have the same w.
C10_IIAEntailsIndividualPrefs ==
    get_iia(Frag) => individual_prefs(Frag)

C10_Witness ==
    /\ Len(sits) = NumStateVars
    /\ get_iia(Frag)
    /\ sits[1].id # sits[2].id
    /\ sits[1].pref = sits[2].pref
    /\ sits[1].welf = sits[2].welf

\* C7: where the Linearity sentence holds, p(x,.,.,s) for every agent x and
\* w(.,.,s) are strict total orders: total on distinct alternatives,
\* irreflexive, transitive and antisymmetric.
C7_LinearityGivesStrictTotalOrders ==
    \A s \in Frag :
        get_linearity({s}) =>
            /\ \A x \in Agents : StrictTotalOrder({ab \in Pairs : p(x, ab[1], ab[2], s)})
            /\ StrictTotalOrder({ab \in Pairs : w(ab[1], ab[2], s)})

C7_Witness ==
    /\ sits # <<>>
    /\ get_linearity(Frag)
    /\ \E a \in Alternatives, b \in Alternatives : a # b /\ w(a, b, sits[1]) /\ p(1, b, a, sits[1])

\* C5: double inversion: p(x,b,a, swap(x,a,b, swap(x,a,b,s))) iff p(x,b,a,s).
C5_DoubleInversion ==
    \A i \in 1..(Len(sits) - 2) :
        sits[i + 1].by = sits[i + 2].by =>
            LET lab == sits[i + 1].by
            IN  p(lab[1], lab[3], lab[2], sits[i + 2]) = p(lab[1], lab[3], lab[2], sits[i])

C5_Witness ==
    \E i \in 1..(Len(sits) - 2) :
        /\ sits[i + 1].by = sits[i + 2].by
        /\ sits[i + 1].by[2] # sits[i + 1].by[3]
        /\ p(sits[i + 1].by[1], sits[i + 1].by[3], sits[i + 1].by[2], sits[i])

\* C6: a swap by agent y of a1, b1 leaves p(x,a,b,.) as it was for every other
\* agent x and every a, b outside {a1, b1}.
C6_FrameUnrelatedSwap ==
    \A i \in 1..(Len(sits) - 1) :
        LET lab == sits[i + 1].by
        IN  \A x \in Agents \ {lab[1]}, a \in Alternatives \ {lab[2], lab[3]},
               b \in Alternatives \ {lab[2], lab[3]} :
                p(x, a, b, sits[i + 1]) = p(x, a, b, sits[i])

C6_Witness ==
    \E i \in 1..(Len(sits) - 1) :
        LET lab == sits[i + 1].by
        IN  /\ lab[2] # lab[3]
            /\ \E x \in Agents \ {lab[1]}, a \in Alternatives \ {lab[2], lab[3]} :
                   p(x, a, a, sits[i]) /\ p(x, a, a, sits[i + 1])

SwapChainExtends ==
    \A s \in Frag : \A lab \in Labels : get_swap_condition(s, lab) \cap Swappable # {}

====
